---- MODULE Spec2Model ----
(***************************************************************************)
(* A model of the dm-rust example clients:                                 *)
(*   - examples/batch_read_demo.py : DeviceClient and RealtimeMonitor      *)
(*   - test_lrc.py                 : the LRC script                        *)
(* The device gateway (the dm-rust service itself) is not part of these    *)
(* files; it is modelled from its request/response contract.               *)
(*                                                                         *)
(* Four specifications share the variables:                                *)
(*   Spec        calls of DeviceClient.batch_read[_with_metadata]          *)
(*   SpecMonitor RealtimeMonitor.start() run by several threads            *)
(*   SpecFailing SpecMonitor with a transport that always fails            *)
(*   SpecLRC     the LRC script, from the hex string to both checksums     *)
(***************************************************************************)
EXTENDS Integers, Sequences, FiniteSets, TLC

VARIABLES
    jsonErrorIsRequestException, \* the installed requests library's JSONDecodeError
    callOp,        \* the DeviceClient method last called
    callItems,     \* its items argument
    callOutcome,   \* what the transport did with its request
    callReturn,    \* how the call ended: returned a value, or raised
    wire,          \* the HTTP requests the last call issued, in order
    running,       \* RealtimeMonitor.running
    pc,            \* per thread: where it is inside start()
    result,        \* per thread: the local variable result of start()
    sleepLeft,     \* per thread: ticks left of the running time.sleep
    issued,        \* per thread: batch_read calls begun in this invocation
    returned,      \* per thread: batch_read calls that returned
    snaps,         \* per thread: snapshots produced (results processed)
    sleeps,        \* per thread: sleeps that ran their full interval
    how,           \* per thread: how its last invocation of start() ended
    nstarts,       \* invocations of start() so far
    stopped,       \* a stop was signalled since the last call of start()
    lateIssued,    \* per thread: batch_read calls begun since that signal
    data,          \* test_lrc.py: the hex string
    bytes_list,    \* test_lrc.py: its bytes
    sum_val,       \* test_lrc.py: the byte sum, low 8 bits
    lrc,           \* test_lrc.py: 256 - sum
    lrc2,          \* test_lrc.py: (!sum) + 1
    lrcpc,         \* test_lrc.py: the next statement
    registers,     \* the values the gateway decodes at the demo's addresses
    items_config,  \* demo_data_processing: the items with scale and unit
    demo_result,   \* demo_data_processing: result of its batch_read
    demo_i,        \* demo_data_processing: position of the for loop
    scaled,        \* demo_data_processing: the lines printed, in order
    demopc,        \* demo_data_processing: the next statement
    mbOp,          \* the ModbusClient method that was called, or "none"
    mbArgs,        \* its arguments
    mbOutcome,     \* what the transport did with its request
    mbReturn,      \* how the call ended: returned a value, or raised
    mbWire         \* the HTTP request the call posted

clientVars == <<jsonErrorIsRequestException, callOp, callItems, callOutcome,
                callReturn, wire>>
monitorVars == <<running, pc, result, sleepLeft, issued, returned, snaps,
                 sleeps, how, nstarts, stopped, lateIssued>>
lrcVars == <<data, bytes_list, sum_val, lrc, lrc2, lrcpc>>
scaleVars == <<registers, items_config, demo_result, demo_i, scaled, demopc>>
modbusVars == <<mbOp, mbArgs, mbOutcome, mbReturn, mbWire>>
vars == <<clientVars, monitorVars, lrcVars, scaleVars, modbusVars>>

----------------------------------------------------------------------------
(* Bounds *)

MaxItems == 3
MaxCycles == 2
MaxStarts == 2
MaxLen == 3
MaxConfig == 2

----------------------------------------------------------------------------
(* Read items: the configurations of demo_error_handling and              *)
(* demo_cross_channel_read.                                                *)

Item(n, c, a, t) ==
    [name |-> n, channel_id |-> c, addr |-> a, type |-> t]

ItemPool ==
    { Item("normal", 3, 100, "int16"),
      Item("no_such_channel", 999, 100, "int16"),
      Item("bad_address", 3, 99999, "int16"),
      Item("type_mismatch", 3, 200, "invalid_type"),
      Item("unit2_pressure", 4, 200, "float32") }

SeqsUpTo(S, n) ==
    UNION { [1..k -> S] : k \in 0..n }

\* Item lists a caller may pass: names are unique within one batch.
Batches ==
    { s \in SeqsUpTo(ItemPool, MaxItems) :
        \A i, j \in 1..Len(s) : i # j => s[i].name # s[j].name }

----------------------------------------------------------------------------
(* The gateway, from its contract.                                         *)

KnownChannels == {3, 4, 5}

SupportedTypes ==
    { "bool", "uint16", "int16", "uint32", "int32", "uint32le", "int32le",
      "float32", "float32le", "float64" }

ValidAddr(a) ==
    a >= 0 /\ a <= 65535

\* The register content the device holds at an address of a channel: the
\* value set up for the address, or else a number made of the two.
RegisterValue(c, a) ==
    IF <<c, a>> \in DOMAIN registers THEN registers[<<c, a>>] ELSE c * 1000 + a

\* One item of a batch, answered on its own.  offline: the channels whose
\* device does not answer this request.
GatewayItem(item, offline) ==
    IF item.channel_id \notin KnownChannels
    THEN [name |-> item.name, success |-> FALSE, error |-> "unknown channel"]
    ELSE IF ~ValidAddr(item.addr)
    THEN [name |-> item.name, success |-> FALSE, error |-> "invalid address"]
    ELSE IF item.type \notin SupportedTypes
    THEN [name |-> item.name, success |-> FALSE, error |-> "unsupported type"]
    ELSE IF item.channel_id \in offline
    THEN [name |-> item.name, success |-> FALSE, error |-> "device timeout"]
    ELSE [name |-> item.name, success |-> TRUE,
          value |-> RegisterValue(item.channel_id, item.addr)]

\* The states a gateway gives a request it did not process.
GatewayRejectStates == {-2, 1}

\* What the gateway may do with a request: process it (state 0, one entry
\* per item), or reject it as a whole (state non-zero, data empty or absent).
GatewayModes ==
    { [mode |-> "ok", offline |-> off] : off \in SUBSET {3, 4} }
    \cup { [mode |-> m, state |-> s] :
             m \in {"reject_empty", "reject_nodata"}, s \in GatewayRejectStates }

GatewayBody(req, gw) ==
    CASE gw.mode = "ok" ->
           [state |-> 0, message |-> "batch read done",
            data |-> [i \in 1..Len(req.items) |->
                        GatewayItem(req.items[i], gw.offline)]]
      [] gw.mode = "reject_empty" ->
           [state |-> gw.state, message |-> "request rejected", data |-> <<>>]
      [] gw.mode = "reject_nodata" ->
           [state |-> gw.state, message |-> "request rejected"]

----------------------------------------------------------------------------
(* The transport: requests.post and the response it gives.                 *)

HttpStatuses == {200, 204, 300, 304, 404, 503}

\* A response body is the gateway's JSON answer, or text that is not JSON.
Outcomes ==
    { [kind |-> "Timeout"], [kind |-> "ConnectionError"] }
    \cup { [kind |-> "Response", status |-> s, json |-> FALSE] :
             s \in HttpStatuses }
    \cup { [kind |-> "Response", status |-> s, json |-> TRUE, gw |-> g] :
             s \in HttpStatuses, g \in GatewayModes }

\* requests.Response.raise_for_status: HTTPError for 4xx and 5xx, nothing
\* for any other status.
raise_for_status(status) ==
    400 <= status /\ status < 600

\* json={"items": items}
RequestBody(items) ==
    [items |-> items]

\* A client that sends one request per channel_id instead of one per call.
post_requests_per_channel(items) ==
    LET chans == { items[i].channel_id : i \in DOMAIN items }
        order == SelectSeq(<<3, 4, 5, 999>>, LAMBDA c : c \in chans)
    IN  [k \in 1..Len(order) |->
           [url |-> "/device/batchRead",
            json |-> RequestBody(
                SelectSeq(items, LAMBDA it : it.channel_id = order[k]))]]

\* The requests one call of batch_read posts.
post_requests(items) ==
    << [url |-> "/device/batchRead", json |-> RequestBody(items)] >>

Returned(v) ==
    [kind |-> "returned", value |-> v]

Raised(e) ==
    [kind |-> "raised", exception |-> e]

\* A failure result that keeps the success state.
FailureResult_state_zero(e) ==
    [state |-> 0, message |-> "request failed: " \o e, data |-> <<>>]

\* except requests.exceptions.RequestException as e: ...
FailureResult(e) ==
    [state |-> -1, message |-> "request failed: " \o e, data |-> <<>>]

\* A client that hands back only the entries that succeeded.
batch_read_successes_only(items, o) ==
    IF o.kind \in {"Timeout", "ConnectionError"}
    THEN Returned(FailureResult(o.kind))
    ELSE IF raise_for_status(o.status)
    THEN Returned(FailureResult("HTTPError"))
    ELSE IF ~o.json
    THEN IF jsonErrorIsRequestException
         THEN Returned(FailureResult("JSONDecodeError"))
         ELSE Raised("JSONDecodeError")
    ELSE LET r == GatewayBody(RequestBody(items), o.gw)
         IN  IF "data" \in DOMAIN r
             THEN Returned([r EXCEPT !.data =
                              SelectSeq(r.data, LAMBDA e : e.success)])
             ELSE Returned(r)

\* A client that fails the whole batch as soon as one entry failed.
batch_read_abort_on_item_error(items, o) ==
    IF o.kind \in {"Timeout", "ConnectionError"}
    THEN Returned(FailureResult(o.kind))
    ELSE IF raise_for_status(o.status)
    THEN Returned(FailureResult("HTTPError"))
    ELSE IF ~o.json
    THEN IF jsonErrorIsRequestException
         THEN Returned(FailureResult("JSONDecodeError"))
         ELSE Raised("JSONDecodeError")
    ELSE LET r == GatewayBody(RequestBody(items), o.gw)
         IN  IF "data" \in DOMAIN r
                  /\ \E i \in DOMAIN r.data : ~r.data[i].success
             THEN Returned(FailureResult("ItemError"))
             ELSE Returned(r)

\* DeviceClient.batch_read, given what the transport does with its request.
batch_read(items, o) ==
    IF o.kind \in {"Timeout", "ConnectionError"}
    THEN Returned(FailureResult(o.kind))
    ELSE IF raise_for_status(o.status)
    THEN Returned(FailureResult("HTTPError"))
    ELSE IF ~o.json
    THEN IF jsonErrorIsRequestException
         THEN Returned(FailureResult("JSONDecodeError"))
         ELSE Raised("JSONDecodeError")
    ELSE Returned(GatewayBody(RequestBody(items), o.gw))

\* result.get("data", [])
GetData(r) ==
    IF "data" \in DOMAIN r THEN r.data ELSE <<>>

\* DeviceClient.batch_read_with_metadata
batch_read_with_metadata(items, o) ==
    LET r == batch_read(items, o)
    IN  IF r.kind = "returned" THEN Returned(GetData(r.value)) ELSE r

----------------------------------------------------------------------------
(* Initial values of the three parts.                                      *)

NoOutcome == [kind |-> "none"]
NoReturn == [kind |-> "none"]
NoResult == [state |-> 0, message |-> "none"]

\* The threads that may call start() on the one monitor.  Python delivers
\* KeyboardInterrupt to the main thread only.
Threads == {1, 2}
MainThread == 1

\* interval: float = 1.0, in ticks of the clock.
interval == 1

\* The fixed item list of the monitor.
MonitorItems ==
    << Item("normal", 3, 100, "int16"),
       Item("unit2_pressure", 4, 200, "float32") >>

ClientInit ==
    /\ callOp = "none"
    /\ callItems = <<>>
    /\ callOutcome = NoOutcome
    /\ callReturn = NoReturn
    /\ wire = <<>>

\* A constructor that leaves the flag set.
MonitorInit_running ==
    /\ running = TRUE
    /\ pc = [t \in Threads |-> "out"]
    /\ result = [t \in Threads |-> NoResult]
    /\ sleepLeft = [t \in Threads |-> 0]
    /\ issued = [t \in Threads |-> 0]
    /\ returned = [t \in Threads |-> 0]
    /\ snaps = [t \in Threads |-> 0]
    /\ sleeps = [t \in Threads |-> 0]
    /\ how = [t \in Threads |-> "none"]
    /\ nstarts = 0
    /\ stopped = FALSE
    /\ lateIssued = [t \in Threads |-> 0]

\* RealtimeMonitor.__init__: running = False; no thread is inside start().
MonitorInit ==
    /\ running = FALSE
    /\ pc = [t \in Threads |-> "out"]
    /\ result = [t \in Threads |-> NoResult]
    /\ sleepLeft = [t \in Threads |-> 0]
    /\ issued = [t \in Threads |-> 0]
    /\ returned = [t \in Threads |-> 0]
    /\ snaps = [t \in Threads |-> 0]
    /\ sleeps = [t \in Threads |-> 0]
    /\ how = [t \in Threads |-> "none"]
    /\ nstarts = 0
    /\ stopped = FALSE
    /\ lateIssued = [t \in Threads |-> 0]

LrcIdle ==
    /\ data = <<>>
    /\ bytes_list = <<>>
    /\ sum_val = 0
    /\ lrc = 0
    /\ lrc2 = 0
    /\ lrcpc = "off"

\* demo_data_processing is not run, and no register content is set up.
ScaleIdle ==
    /\ registers = <<>>
    /\ items_config = <<>>
    /\ demo_result = NoResult
    /\ demo_i = 0
    /\ scaled = <<>>
    /\ demopc = "off"

\* No method of ModbusClient has been called.
ModbusInit ==
    /\ mbOp = "none"
    /\ mbArgs = <<>>
    /\ mbOutcome = NoOutcome
    /\ mbReturn = NoReturn
    /\ mbWire = <<>>

----------------------------------------------------------------------------
(* DeviceClient: one action per public method.                             *)

\* A call is observed from its entry to its end; the client itself keeps
\* nothing between calls.
Call_batch_read ==
    /\ callOp = "none"
    /\ \E items \in Batches, o \in Outcomes :
          /\ callOp' = "batch_read"
          /\ callItems' = items
          /\ callOutcome' = o
          /\ wire' = post_requests(items)
          /\ callReturn' = batch_read(items, o)
    /\ UNCHANGED <<jsonErrorIsRequestException, monitorVars, lrcVars,
                   scaleVars, modbusVars>>

Call_batch_read_with_metadata ==
    /\ callOp = "none"
    /\ \E items \in Batches, o \in Outcomes :
          /\ callOp' = "batch_read_with_metadata"
          /\ callItems' = items
          /\ callOutcome' = o
          /\ wire' = post_requests(items)
          /\ callReturn' = batch_read_with_metadata(items, o)
    /\ UNCHANGED <<jsonErrorIsRequestException, monitorVars, lrcVars,
                   scaleVars, modbusVars>>

\* The caller has taken the outcome of the call; the next call may begin.
CallDone ==
    /\ callOp # "none"
    /\ callOp' = "none"
    /\ callItems' = <<>>
    /\ callOutcome' = NoOutcome
    /\ callReturn' = NoReturn
    /\ wire' = <<>>
    /\ UNCHANGED <<jsonErrorIsRequestException, monitorVars, lrcVars,
                   scaleVars, modbusVars>>

Init ==
    /\ jsonErrorIsRequestException \in BOOLEAN
    /\ ClientInit
    /\ MonitorInit
    /\ LrcIdle
    /\ ScaleIdle
    /\ ModbusInit

Next ==
    \/ Call_batch_read
    \/ Call_batch_read_with_metadata
    \/ CallDone

Spec == Init /\ [][Next]_vars

----------------------------------------------------------------------------
(* RealtimeMonitor.start(), statement by statement, run by any thread.     *)
(* pc: "out"     not inside start()                                        *)
(*     "loop"    at the while self.running test                            *)
(*     "call"    past the test, timestamp taken, about to call batch_read  *)
(*     "reading" inside batch_read, the request is in flight               *)
(*     "process" result in hand, printing the snapshot                     *)
(*     "sleep"   inside time.sleep(self.interval)                          *)
(* how: "none" | "flag" (the while test failed) | "interrupt"              *)
(*      (KeyboardInterrupt caught) | "error" (another exception left       *)
(*      start())                                                           *)

\* self.running = True, then the banner, then the try block is entered.
Start(t) ==
    /\ pc[t] = "out"
    /\ nstarts < MaxStarts
    /\ running' = TRUE
    /\ nstarts' = nstarts + 1
    /\ pc' = [pc EXCEPT ![t] = "loop"]
    /\ how' = [how EXCEPT ![t] = "none"]
    /\ result' = [result EXCEPT ![t] = NoResult]
    /\ sleepLeft' = [sleepLeft EXCEPT ![t] = 0]
    /\ issued' = [issued EXCEPT ![t] = 0]
    /\ returned' = [returned EXCEPT ![t] = 0]
    /\ snaps' = [snaps EXCEPT ![t] = 0]
    /\ sleeps' = [sleeps EXCEPT ![t] = 0]
    /\ stopped' = FALSE
    /\ lateIssued' = [u \in Threads |-> 0]
    /\ UNCHANGED <<clientVars, lrcVars, scaleVars, modbusVars>>

\* A loop that tests nothing: while True.
LoopCheck_ignores_flag(t) ==
    /\ pc[t] = "loop"
    /\ issued[t] < MaxCycles
    /\ pc' = [pc EXCEPT ![t] = "call"]
    /\ UNCHANGED <<running, result, sleepLeft, issued, returned, snaps,
                   sleeps, how, nstarts, stopped, lateIssued>>
    /\ UNCHANGED <<clientVars, lrcVars, scaleVars, modbusVars>>

\* while self.running: ... ; the timestamp of the cycle is taken.
LoopCheck(t) ==
    /\ pc[t] = "loop"
    /\ IF running
       THEN /\ issued[t] < MaxCycles
            /\ pc' = [pc EXCEPT ![t] = "call"]
            /\ how' = how
       ELSE /\ pc' = [pc EXCEPT ![t] = "out"]
            /\ how' = [how EXCEPT ![t] = "flag"]
    /\ UNCHANGED <<running, result, sleepLeft, issued, returned, snaps,
                   sleeps, nstarts, stopped, lateIssued>>
    /\ UNCHANGED <<clientVars, lrcVars, scaleVars, modbusVars>>

\* result = self.client.batch_read(self.items): the call begins.
IssueRead(t) ==
    /\ pc[t] = "call"
    /\ pc' = [pc EXCEPT ![t] = "reading"]
    /\ issued' = [issued EXCEPT ![t] = @ + 1]
    /\ lateIssued' = [lateIssued EXCEPT ![t] = IF stopped THEN @ + 1 ELSE @]
    /\ UNCHANGED <<running, result, sleepLeft, returned, snaps, sleeps, how,
                   nstarts, stopped>>
    /\ UNCHANGED <<clientVars, lrcVars, scaleVars, modbusVars>>

\* batch_read ends: it returns the result, or lets an exception through,
\* which only KeyboardInterrupt's handler could catch: it leaves start().
ReadReturn(t, outcomes) ==
    /\ pc[t] = "reading"
    /\ \E o \in outcomes :
          LET r == batch_read(MonitorItems, o)
          IN  IF r.kind = "returned"
              THEN /\ result' = [result EXCEPT ![t] = r.value]
                   /\ returned' = [returned EXCEPT ![t] = @ + 1]
                   /\ pc' = [pc EXCEPT ![t] = "process"]
                   /\ how' = how
              ELSE /\ pc' = [pc EXCEPT ![t] = "out"]
                   /\ how' = [how EXCEPT ![t] = "error"]
                   /\ UNCHANGED <<result, returned>>
    /\ UNCHANGED <<running, sleepLeft, issued, snaps, sleeps, nstarts,
                   stopped, lateIssued>>
    /\ UNCHANGED <<clientVars, lrcVars, scaleVars, modbusVars>>

\* A loop that goes straight back to the while test, without sleeping.
Process_no_sleep(t) ==
    /\ pc[t] = "process"
    /\ snaps' = [snaps EXCEPT ![t] = @ + 1]
    /\ pc' = [pc EXCEPT ![t] = "loop"]
    /\ UNCHANGED <<running, result, sleepLeft, issued, returned, sleeps, how,
                   nstarts, stopped, lateIssued>>
    /\ UNCHANGED <<clientVars, lrcVars, scaleVars, modbusVars>>

\* The snapshot is printed (message, then one line per entry of
\* result.get("data", [])), and time.sleep(self.interval) begins.
Process(t) ==
    /\ pc[t] = "process"
    /\ snaps' = [snaps EXCEPT ![t] = @ + 1]
    /\ pc' = [pc EXCEPT ![t] = "sleep"]
    /\ sleepLeft' = [sleepLeft EXCEPT ![t] = interval]
    /\ UNCHANGED <<running, result, issued, returned, sleeps, how, nstarts,
                   stopped, lateIssued>>
    /\ UNCHANGED <<clientVars, lrcVars, scaleVars, modbusVars>>

\* The clock ticks while the thread sleeps.
SleepTick(t) ==
    /\ pc[t] = "sleep"
    /\ sleepLeft[t] > 0
    /\ sleepLeft' = [sleepLeft EXCEPT ![t] = @ - 1]
    /\ UNCHANGED <<running, pc, result, issued, returned, snaps, sleeps, how,
                   nstarts, stopped, lateIssued>>
    /\ UNCHANGED <<clientVars, lrcVars, scaleVars, modbusVars>>

\* time.sleep returns once the interval has passed.
Wake(t) ==
    /\ pc[t] = "sleep"
    /\ sleepLeft[t] = 0
    /\ sleeps' = [sleeps EXCEPT ![t] = @ + 1]
    /\ pc' = [pc EXCEPT ![t] = "loop"]
    /\ UNCHANGED <<running, result, sleepLeft, issued, returned, snaps, how,
                   nstarts, stopped, lateIssued>>
    /\ UNCHANGED <<clientVars, lrcVars, scaleVars, modbusVars>>

\* Ctrl+C while the main thread is inside the try block, at any statement:
\* except KeyboardInterrupt: self.running = False.
KeyboardInterrupt(t) ==
    /\ t = MainThread
    /\ pc[t] \in {"loop", "call", "reading", "process", "sleep"}
    /\ running' = FALSE
    /\ stopped' = TRUE
    /\ pc' = [pc EXCEPT ![t] = "out"]
    /\ how' = [how EXCEPT ![t] = "interrupt"]
    /\ UNCHANGED <<result, sleepLeft, issued, returned, snaps, sleeps,
                   nstarts, lateIssued>>
    /\ UNCHANGED <<clientVars, lrcVars, scaleVars, modbusVars>>

\* Another thread clears the flag: monitor.running = False.
StopFlag ==
    /\ running
    /\ running' = FALSE
    /\ stopped' = TRUE
    /\ UNCHANGED <<pc, result, sleepLeft, issued, returned, snaps, sleeps,
                   how, nstarts, lateIssued>>
    /\ UNCHANGED <<clientVars, lrcVars, scaleVars, modbusVars>>

\* What the transport does with the monitor's requests: each kind of
\* outcome once, with the gateway processing the request when it answers.
MonitorOutcomes ==
    { o \in Outcomes :
        /\ o.kind = "Response" => o.status \in {200, 300, 503}
        /\ (o.kind = "Response" /\ o.json) => o.gw = [mode |-> "ok", offline |-> {}] }

NextMonitor ==
    \/ \E t \in Threads : Start(t)
    \/ \E t \in Threads : LoopCheck(t)
    \/ \E t \in Threads : IssueRead(t)
    \/ \E t \in Threads : ReadReturn(t, MonitorOutcomes)
    \/ \E t \in Threads : Process(t)
    \/ \E t \in Threads : SleepTick(t)
    \/ \E t \in Threads : Wake(t)
    \/ \E t \in Threads : KeyboardInterrupt(t)
    \/ StopFlag

SpecMonitor == Init /\ [][NextMonitor]_vars

\* The transport of the scenario "a transport that always fails".
FailingOutcomes ==
    { o \in MonitorOutcomes : o.kind \in {"Timeout", "ConnectionError"}
                              \/ ~(200 <= o.status /\ o.status < 300) }

NextFailing ==
    \/ \E t \in Threads : Start(t)
    \/ \E t \in Threads : LoopCheck(t)
    \/ \E t \in Threads : IssueRead(t)
    \/ \E t \in Threads : ReadReturn(t, FailingOutcomes)
    \/ \E t \in Threads : Process(t)
    \/ \E t \in Threads : SleepTick(t)
    \/ \E t \in Threads : Wake(t)
    \/ \E t \in Threads : KeyboardInterrupt(t)
    \/ StopFlag

SpecFailing == Init /\ [][NextFailing]_vars

----------------------------------------------------------------------------
(* test_lrc.py: the script, statement by statement.                        *)

\* The value of one hexadecimal digit, as int(x, 16) reads it.
HexDigit(c) ==
    CASE c = "0" -> 0  [] c = "1" -> 1  [] c = "2" -> 2  [] c = "3" -> 3
      [] c = "4" -> 4  [] c = "5" -> 5  [] c = "6" -> 6  [] c = "7" -> 7
      [] c = "8" -> 8  [] c = "9" -> 9  [] c = "A" -> 10 [] c = "B" -> 11
      [] c = "C" -> 12 [] c = "D" -> 13 [] c = "E" -> 14 [] c = "F" -> 15

\* A parse that reads the low digit first.
IntBase16_low_digit_first(chunk) ==
    IF Len(chunk) = 1
    THEN HexDigit(chunk[1])
    ELSE HexDigit(chunk[1]) + 16 * HexDigit(chunk[2])

\* int(chunk, 16) for a chunk of one or two digits.
IntBase16(chunk) ==
    IF Len(chunk) = 1 THEN HexDigit(chunk[1])
    ELSE 16 * HexDigit(chunk[1]) + HexDigit(chunk[2])

\* data[i:i+2], for the 0-based index i: the slice stops at the end.
Slice2(d, i) ==
    SubSeq(d, i + 1, IF i + 2 <= Len(d) THEN i + 2 ELSE Len(d))

\* [int(data[i:i+2], 16) for i in range(0, len(data), 2)]
ParseBytes(d) ==
    [k \in 1..((Len(d) + 1) \div 2) |-> IntBase16(Slice2(d, 2 * (k - 1)))]

RECURSIVE SumSeq(_)
\* sum(bytes_list)
SumSeq(s) ==
    IF s = <<>> THEN 0 ELSE s[1] + SumSeq(Tail(s))

\* x & 0xFF
And0xFF(x) ==
    x % 256

\* A checksum that is not cut to one byte.
lrc_unmasked(s) ==
    256 - s

\* (256 - sum_val) & 0xFF
lrc_256_minus_sum(s) ==
    And0xFF(256 - s)

\* ((0xFF - sum_val) + 1) & 0xFF
lrc_complement_plus_one(s) ==
    And0xFF((255 - s) + 1)

\* data = '00100B00001001'
Fixture ==
    << "0", "0", "1", "0", "0", "B", "0", "0", "0", "0", "1", "0", "0", "1" >>

\* data[0:12]: the fixture without its last byte pair.
SixBytes ==
    SubSeq(Fixture, 1, 12)

\* The hex strings the script is run on: its own, its first six byte pairs,
\* and every string of up to MaxLen bytes over these digits.
HexChars == {"0", "1", "B", "F"}

HexStrings ==
    SeqsUpTo(HexChars, 2 * MaxLen) \cup {Fixture, SixBytes}

LrcInit ==
    /\ data \in HexStrings
    /\ bytes_list = <<>>
    /\ sum_val = 0
    /\ lrc = 0
    /\ lrc2 = 0
    /\ lrcpc = "bytes"

StepBytes ==
    /\ lrcpc = "bytes"
    /\ bytes_list' = ParseBytes(data)
    /\ lrcpc' = "sum"
    /\ UNCHANGED <<data, sum_val, lrc, lrc2, clientVars, monitorVars,
                   scaleVars, modbusVars>>

StepSum ==
    /\ lrcpc = "sum"
    /\ sum_val' = And0xFF(SumSeq(bytes_list))
    /\ lrcpc' = "lrc"
    /\ UNCHANGED <<data, bytes_list, lrc, lrc2, clientVars, monitorVars,
                   scaleVars, modbusVars>>

StepLrc ==
    /\ lrcpc = "lrc"
    /\ lrc' = lrc_256_minus_sum(sum_val)
    /\ lrcpc' = "lrc2"
    /\ UNCHANGED <<data, bytes_list, sum_val, lrc2, clientVars, monitorVars,
                   scaleVars, modbusVars>>

StepLrc2 ==
    /\ lrcpc = "lrc2"
    /\ lrc2' = lrc_complement_plus_one(sum_val)
    /\ lrcpc' = "done"
    /\ UNCHANGED <<data, bytes_list, sum_val, lrc, clientVars, monitorVars,
                   scaleVars, modbusVars>>

InitLRC ==
    /\ jsonErrorIsRequestException = TRUE
    /\ ClientInit
    /\ MonitorInit
    /\ LrcInit
    /\ ScaleIdle
    /\ ModbusInit

NextLRC ==
    \/ StepBytes
    \/ StepSum
    \/ StepLrc
    \/ StepLrc2

SpecLRC == InitLRC /\ [][NextLRC]_vars

----------------------------------------------------------------------------
(* demo_data_processing: read the configured items in one batch, then      *)
(* turn each raw value into an engineering value.                          *)

\* JSON values: a number, kept exact as num/den, or a boolean.
Num(n, d) == [kind |-> "num", num |-> n, den |-> d]
Bool(b) == [kind |-> "bool", b |-> b]

\* raw_value * config["scale"]: Python multiplies a bool as 1 or 0.
scaled_value(raw_value, scale) ==
    IF raw_value.kind = "bool"
    THEN Num((IF raw_value.b THEN 1 ELSE 0) * scale.num, scale.den)
    ELSE Num(raw_value.num * scale.num, raw_value.den * scale.den)

ConfigItem(n, c, a, t, s, u) ==
    [name |-> n, channel_id |-> c, addr |-> a, type |-> t, scale |-> s,
     unit |-> u]

\* items_config as the demo defines it.
DemoConfig ==
    << ConfigItem("temperature", 3, 100, "int16", Num(1, 10), "C"),
       ConfigItem("pressure", 3, 200, "float32", Num(1, 1), "Pa"),
       ConfigItem("flow", 3, 300, "uint32", Num(1, 1000), "m3/h"),
       ConfigItem("level", 3, 400, "uint16", Num(1, 100), "m") >>

\* The entries a configuration is made of: those of the demo, the bool point
\* of demo_realtime_monitoring with a scale, and the bad address of
\* demo_error_handling.
ConfigPool ==
    { DemoConfig[i] : i \in DOMAIN DemoConfig }
    \cup { ConfigItem("pump", 3, 0, "bool", s, "on") :
             s \in {Num(1, 10), Num(1, 1)} }
    \cup { ConfigItem("bad_address", 3, 99999, "int16", Num(1, 10), "C") }

\* Names are unique within one configuration.
Configs ==
    { s \in SeqsUpTo(ConfigPool, MaxConfig) :
        \A i, j \in 1..Len(s) : i # j => s[i].name # s[j].name }
    \cup {DemoConfig}

\* What the device holds at the demo's addresses.
RegisterContents ==
    { (<<3, 100>> :> t) @@ (<<3, 200>> :> Num(202651, 2))
        @@ (<<3, 300>> :> Num(1234567, 1)) @@ (<<3, 400>> :> Num(150, 1))
        @@ (<<3, 0>> :> Bool(b)) :
        t \in {Num(256, 1), Num(-40, 1)}, b \in BOOLEAN }

\* {k: v for k, v in item.items() if k in ["name", "channel_id", "addr", "type"]}
read_items(config) ==
    [i \in 1..Len(config) |->
       Item(config[i].name, config[i].channel_id, config[i].addr,
            config[i].type)]

\* next(c for c in items_config if c["name"] == item["name"])
ConfigOf(config, name) ==
    config[CHOOSE k \in DOMAIN config :
             /\ config[k].name = name
             /\ \A j \in 1..(k - 1) : config[j].name # name]

\* What the transport does with the demo's request.
ScaleOutcomes ==
    { [kind |-> "Timeout"],
      [kind |-> "Response", status |-> 503, json |-> FALSE],
      [kind |-> "Response", status |-> 200, json |-> FALSE] }
    \cup { [kind |-> "Response", status |-> 200, json |-> TRUE, gw |-> g] :
             g \in { [mode |-> "ok", offline |-> {}],
                     [mode |-> "ok", offline |-> {3}],
                     [mode |-> "reject_nodata", state |-> 1] } }

ScaleInit ==
    /\ registers \in RegisterContents
    /\ items_config \in Configs
    /\ demo_result = NoResult
    /\ demo_i = 0
    /\ scaled = <<>>
    /\ demopc = "read"

\* result = client.batch_read(read_items); an exception batch_read lets
\* through ends the demo.
DemoRead ==
    /\ demopc = "read"
    /\ \E o \in ScaleOutcomes :
         LET r == batch_read(read_items(items_config), o)
         IN  IF r.kind = "returned"
             THEN /\ demo_result' = r.value
                  /\ demo_i' = 1
                  /\ demopc' = "loop"
             ELSE /\ demopc' = "raised"
                  /\ UNCHANGED <<demo_result, demo_i>>
    /\ UNCHANGED <<registers, items_config, scaled, clientVars, monitorVars,
                   lrcVars, modbusVars>>

\* if not item.get("success"): continue
DemoSkip ==
    /\ demopc = "loop"
    /\ demo_i <= Len(GetData(demo_result))
    /\ ~GetData(demo_result)[demo_i].success
    /\ demo_i' = demo_i + 1
    /\ UNCHANGED <<registers, items_config, demo_result, scaled, demopc,
                   clientVars, monitorVars, lrcVars, modbusVars>>

\* The rest of the loop body: look the configuration up, scale, print.
DemoScale ==
    /\ demopc = "loop"
    /\ demo_i <= Len(GetData(demo_result))
    /\ GetData(demo_result)[demo_i].success
    /\ LET item == GetData(demo_result)[demo_i]
           config == ConfigOf(items_config, item.name)
           raw_value == item.value
       IN  scaled' = Append(scaled,
                            [name |-> config.name,
                             raw |-> raw_value,
                             scaled_value |->
                                 scaled_value(raw_value, config.scale),
                             unit |-> config.unit])
    /\ demo_i' = demo_i + 1
    /\ UNCHANGED <<registers, items_config, demo_result, demopc, clientVars,
                   monitorVars, lrcVars, modbusVars>>

\* The for loop has gone through result.get("data", []).
DemoEnd ==
    /\ demopc = "loop"
    /\ demo_i > Len(GetData(demo_result))
    /\ demopc' = "done"
    /\ UNCHANGED <<registers, items_config, demo_result, demo_i, scaled,
                   clientVars, monitorVars, lrcVars, modbusVars>>

InitScale ==
    /\ jsonErrorIsRequestException \in BOOLEAN
    /\ ClientInit
    /\ MonitorInit
    /\ LrcIdle
    /\ ScaleInit
    /\ ModbusInit

NextScale ==
    \/ DemoRead
    \/ DemoSkip
    \/ DemoScale
    \/ DemoEnd

SpecScale == InitScale /\ [][NextScale]_vars

----------------------------------------------------------------------------
(* ModbusClient: the single-item client of modbus_types_demo.py.           *)

\* Python's None.
NoneValue == [kind |-> "None"]

\* The values a read may carry: zero and False among them.
ReadValues ==
    { Num(0, 1), Num(256, 1), Num(202651, 2), Bool(FALSE), Bool(TRUE) }

\* The JSON bodies of the execute endpoint: success with a value, success
\* without one (the answer to a write), and failure with a message.
ExecuteBodies ==
    { [code |-> 0, msg |-> "ok", data |-> [value |-> v]] : v \in ReadValues }
    \cup { [code |-> 0, msg |-> "ok", data |-> <<>>] }
    \cup { [code |-> c, msg |-> "device error", data |-> <<>>] :
             c \in {-1, 1} }

\* JSON bodies that do not have the fields of the contract.
MalformedBodies ==
    { [msg |-> "ok", data |-> [value |-> Num(256, 1)]],
      [code |-> 0, msg |-> "ok"],
      [code |-> 1] }

ModbusStatuses == {200, 201, 404, 500}

ModbusOutcomes ==
    { [kind |-> "Timeout"], [kind |-> "ConnectionError"] }
    \cup { [kind |-> "Response", status |-> s, json |-> FALSE] :
             s \in ModbusStatuses }
    \cup { [kind |-> "Response", status |-> s, json |-> TRUE, body |-> b] :
             s \in ModbusStatuses, b \in ExecuteBodies \cup MalformedBodies }

\* The exceptions the try block can end with; all are subclasses of
\* Exception.  Those of requests are RequestException as well.
ExceptionClasses ==
    { "Timeout", "ConnectionError", "JSONDecodeError", "KeyError" }

RequestExceptionClasses ==
    { "Timeout", "ConnectionError" }

\* How a try block ends: with a return, with an exception, or by reaching
\* its end.
TryReturn(v) == [kind |-> "return", value |-> v]
TryRaise(e) == [kind |-> "raise", exception |-> e]
TryEnd == [kind |-> "end"]

\* json={"channel": ..., "command": ..., "params": {...}}
ExecuteRequest(channel, command, params) ==
    [url |-> "/device/execute",
     json |-> [channel |-> channel, command |-> command, params |-> params]]

\* The try block of read_typed.
read_typed_try(o) ==
    IF o.kind \in {"Timeout", "ConnectionError"}
    THEN TryRaise(o.kind)
    ELSE IF o.status = 200
    THEN IF ~o.json
         THEN TryRaise("JSONDecodeError")
         ELSE IF "code" \notin DOMAIN o.body
         THEN TryRaise("KeyError")
         ELSE IF o.body.code = 0
         THEN IF "data" \notin DOMAIN o.body
                   \/ "value" \notin DOMAIN o.body.data
              THEN TryRaise("KeyError")
              ELSE TryReturn(o.body.data.value)
         ELSE IF "msg" \notin DOMAIN o.body
         THEN TryRaise("KeyError")
         ELSE TryEnd
    ELSE TryEnd

\* The try block of write_typed.
write_typed_try(o) ==
    IF o.kind \in {"Timeout", "ConnectionError"}
    THEN TryRaise(o.kind)
    ELSE IF o.status = 200
    THEN IF ~o.json
         THEN TryRaise("JSONDecodeError")
         ELSE IF "code" \notin DOMAIN o.body
         THEN TryRaise("KeyError")
         ELSE IF o.body.code = 0
         THEN TryReturn(TRUE)
         ELSE IF "msg" \notin DOMAIN o.body
         THEN TryRaise("KeyError")
         ELSE TryEnd
    ELSE TryEnd

\* A read_typed that catches requests' exceptions only.
read_typed_except_RequestException(o) ==
    LET t == read_typed_try(o)
    IN  CASE t.kind = "return" -> Returned(t.value)
          [] t.kind = "raise" ->
               IF t.exception \in RequestExceptionClasses
               THEN Returned(NoneValue)
               ELSE Raised(t.exception)
          [] t.kind = "end" -> Returned(NoneValue)

\* ModbusClient.read_typed: except Exception, then return None.
read_typed(o) ==
    LET t == read_typed_try(o)
    IN  CASE t.kind = "return" -> Returned(t.value)
          [] t.kind = "raise" ->
               IF t.exception \in ExceptionClasses
               THEN Returned(NoneValue)
               ELSE Raised(t.exception)
          [] t.kind = "end" -> Returned(NoneValue)

\* ModbusClient.write_typed: except Exception, then return False.
write_typed(o) ==
    LET t == write_typed_try(o)
    IN  CASE t.kind = "return" -> Returned(t.value)
          [] t.kind = "raise" ->
               IF t.exception \in ExceptionClasses
               THEN Returned(FALSE)
               ELSE Raised(t.exception)
          [] t.kind = "end" -> Returned(FALSE)

\* The registers and types the demo reads and writes.
ModbusAddrs == {0, 100}
ModbusTypes == {"int16", "bool"}

Call_read_typed ==
    /\ mbOp = "none"
    /\ \E addr \in ModbusAddrs, data_type \in ModbusTypes,
          o \in ModbusOutcomes :
         /\ mbOp' = "read"
         /\ mbArgs' = <<1, addr, data_type>>
         /\ mbWire' = ExecuteRequest(1, "read",
                                     [addr |-> addr, type |-> data_type])
         /\ mbOutcome' = o
         /\ mbReturn' = read_typed(o)
    /\ UNCHANGED <<clientVars, monitorVars, lrcVars, scaleVars>>

Call_write_typed ==
    /\ mbOp = "none"
    /\ \E addr \in ModbusAddrs, data_type \in ModbusTypes,
          value \in {Num(256, 1), Bool(TRUE)}, o \in ModbusOutcomes :
         /\ mbOp' = "write"
         /\ mbArgs' = <<1, addr, value, data_type>>
         /\ mbWire' = ExecuteRequest(1, "write",
                                     [addr |-> addr, type |-> data_type,
                                      value |-> value])
         /\ mbOutcome' = o
         /\ mbReturn' = write_typed(o)
    /\ UNCHANGED <<clientVars, monitorVars, lrcVars, scaleVars>>

\* The call is over; the client keeps no state between calls.
ModbusCallDone ==
    /\ mbOp # "none"
    /\ mbOp' = "none"
    /\ mbArgs' = <<>>
    /\ mbOutcome' = NoOutcome
    /\ mbReturn' = NoReturn
    /\ mbWire' = <<>>
    /\ UNCHANGED <<clientVars, monitorVars, lrcVars, scaleVars>>

NextModbus ==
    \/ Call_read_typed
    \/ Call_write_typed
    \/ ModbusCallDone

SpecModbus == Init /\ [][NextModbus]_vars

----------------------------------------------------------------------------
(* Claims about DeviceClient (checked under Spec).                         *)

\* The transport outcomes the specification calls transport failures:
\* timeout, connection error, non-2xx status.
TransportFailure(o) ==
    \/ o.kind \in {"Timeout", "ConnectionError"}
    \/ o.kind = "Response" /\ ~(200 <= o.status /\ o.status < 300)

\* The transport outcomes batch_read turns into its own failure result.
HandledFailure(o) ==
    \/ o.kind \in {"Timeout", "ConnectionError"}
    \/ o.kind = "Response" /\ raise_for_status(o.status)

\* The gateway's answer to a processed request reached the client.
Processed(o) ==
    /\ o.kind = "Response"
    /\ ~raise_for_status(o.status)
    /\ o.json
    /\ o.gw.mode = "ok"

IsFailureResult(r) ==
    /\ r.kind = "returned"
    /\ r.value.state < 0
    /\ "message" \in DOMAIN r.value
    /\ r.value.message # ""
    /\ "data" \in DOMAIN r.value
    /\ r.value.data = <<>>

\* C1: for every transport failure (timeout, connection error, non-2xx
\* status) batch_read returns, without raising, a result with negative
\* state, a message and empty data.
C1_TransportFailureNeverEscapes ==
    (callOp = "batch_read" /\ TransportFailure(callOutcome))
        => IsFailureResult(callReturn)

SuccessCount(d) ==
    Cardinality({ i \in DOMAIN d : d[i].success })

\* The items a gateway can read: well-formed, and their device answers.
Readable(item, offline) ==
    /\ item.channel_id \in KnownChannels
    /\ item.channel_id \notin offline
    /\ ValidAddr(item.addr)
    /\ item.type \in SupportedTypes

\* The data a call handed back to its caller.
ReturnedData ==
    IF callOp = "batch_read" THEN GetData(callReturn.value)
    ELSE callReturn.value

\* C2: with the transport succeeding and the gateway reporting K successes
\* among N items, the returned data has N entries, K of them successful;
\* data is shorter than N only with a non-zero state, and is then empty.
C2_OneEntryPerItem ==
    (callOp # "none" /\ callReturn.kind = "returned") =>
        LET N == Len(callItems)
            K == Cardinality({ i \in 1..N :
                     Readable(callItems[i], callOutcome.gw.offline) })
        IN  /\ Processed(callOutcome) =>
                  /\ Len(ReturnedData) = N
                  /\ SuccessCount(ReturnedData) = K
            /\ Len(ReturnedData) < N =>
                  /\ ReturnedData = <<>>
                  /\ callOp = "batch_read" => callReturn.value.state # 0

C2_Witness ==
    /\ callOp = "batch_read_with_metadata"
    /\ callReturn.kind = "returned"
    /\ Processed(callOutcome)
    /\ Len(callItems) = 3
    /\ SuccessCount(ReturnedData) = 1

BadItem(item) ==
    \/ item.channel_id \notin KnownChannels
    \/ ~ValidAddr(item.addr)
    \/ item.type \notin SupportedTypes

Remove(s, i) ==
    [j \in 1..(Len(s) - 1) |-> IF j < i THEN s[j] ELSE s[j + 1]]

\* C3: an item with an unsupported type, an unknown channel or an invalid
\* address fails alone: its entry is success=false with an error, the batch
\* state is 0, and every other entry is what the batch without it yields.
C3_BadItemFailsAlone ==
    (callOp = "batch_read" /\ Processed(callOutcome)) =>
        /\ callReturn.kind = "returned"
        /\ callReturn.value.state = 0
        /\ \A i \in 1..Len(callItems) :
              BadItem(callItems[i]) =>
                LET d == callReturn.value.data
                    rest == batch_read(Remove(callItems, i),
                                       callOutcome).value.data
                IN  /\ Len(d) = Len(callItems)
                    /\ d[i].name = callItems[i].name
                    /\ d[i].success = FALSE
                    /\ "error" \in DOMAIN d[i]
                    /\ Len(rest) = Len(d) - 1
                    /\ \A j \in 1..Len(rest) :
                          rest[j] = d[IF j < i THEN j ELSE j + 1]

C3_Witness ==
    /\ callOp = "batch_read"
    /\ Processed(callOutcome)
    /\ Len(callItems) = 3
    /\ callItems[2].type = "invalid_type"
    /\ callReturn.value.data[1].success
    /\ callReturn.value.data[3].success

\* C4: a call issues exactly one request, and the request carries the whole
\* item list in the caller's order, whatever channels the items name.
C4_OneRequestWholeList ==
    callOp # "none" =>
        /\ Len(wire) = 1
        /\ wire[1].json.items = callItems

C4_Witness ==
    /\ callOp = "batch_read"
    /\ Len(wire) = 1
    /\ Len(callItems) = 3
    /\ callItems[1].channel_id = 4
    /\ callItems[2].channel_id = 3
    /\ callItems[3].channel_id = 999

\* C5 as stated: with an empty item list the result is state 0 and empty
\* data, whatever the gateway and the transport do.
C5_EmptyListAlwaysStateZero ==
    (callOp = "batch_read" /\ callItems = <<>>) =>
        /\ callReturn.kind = "returned"
        /\ callReturn.value.state = 0
        /\ GetData(callReturn.value) = <<>>

\* C5 amended: with an empty item list the request is still sent; whenever
\* the call returns its data is empty, its state is 0 when the gateway's
\* answer to the processed request arrives, and -1 on a timeout, a
\* connection error or a 4xx/5xx status.
C5_EmptyListFollowsTransport ==
    (callOp = "batch_read" /\ callItems = <<>>) =>
        /\ Len(wire) = 1
        /\ callReturn.kind = "returned" => GetData(callReturn.value) = <<>>
        /\ Processed(callOutcome) =>
              callReturn.kind = "returned" /\ callReturn.value.state = 0
        /\ HandledFailure(callOutcome) =>
              callReturn.kind = "returned" /\ callReturn.value.state = -1

C5_Witness ==
    /\ callOp = "batch_read"
    /\ callItems = <<>>
    /\ callOutcome.kind = "Timeout"
    /\ callReturn.kind = "returned"
    /\ callReturn.value.state = -1

----------------------------------------------------------------------------
(* Claims about RealtimeMonitor (checked under SpecMonitor, C7 under       *)
(* SpecFailing).                                                           *)

\* Within one invocation of start(): read, then processing, then the full
\* sleep, and the next read only after that sleep has ended.
CycleOrder(t) ==
    /\ issued[t] - returned[t] \in {0, 1}
    /\ pc[t] \in {"loop", "call"} =>
          /\ returned[t] = issued[t]
          /\ snaps[t] = issued[t]
          /\ sleeps[t] = issued[t]
          /\ sleepLeft[t] = 0
    /\ pc[t] = "reading" =>
          /\ returned[t] = issued[t] - 1
          /\ snaps[t] = returned[t]
          /\ sleeps[t] = returned[t]
          /\ sleepLeft[t] = 0
    /\ pc[t] = "process" =>
          /\ returned[t] = issued[t]
          /\ snaps[t] = issued[t] - 1
          /\ sleeps[t] = snaps[t]
          /\ sleepLeft[t] = 0
    /\ pc[t] = "sleep" =>
          /\ returned[t] = issued[t]
          /\ snaps[t] = issued[t]
          /\ sleeps[t] = issued[t] - 1
          /\ sleepLeft[t] \in 0..interval

\* C6 as stated: on one instance at most one batch_read is outstanding at
\* any moment, however start() is invoked, and every cycle is read,
\* processing, full sleep.
C6_OneOutstandingRead ==
    /\ Cardinality({ t \in Threads : pc[t] = "reading" }) <= 1
    /\ \A t \in Threads : CycleOrder(t)

\* C6 amended: each invocation of start() has at most one batch_read
\* outstanding and runs its cycles as read, processing, full sleep, the next
\* read only after that sleep; invocations running at the same time on one
\* instance are not serialized against each other.
C6_OneOutstandingReadPerInvocation ==
    \A t \in Threads : CycleOrder(t)

C6_Witness ==
    /\ pc[1] = "reading"
    /\ issued[1] = 2
    /\ sleeps[1] = 1
    /\ pc[2] = "reading"

\* C7: with a transport that always fails the loop is never ended by a
\* failure, a cycle makes one batch_read call and never a second one, every
\* result that becomes a snapshot has a negative state, and a loop ended by
\* the flag after K cycles has produced K snapshots (one less at most when a
\* KeyboardInterrupt cut the last cycle short).
C7_FailingTransportOneSnapshotPerCycle ==
    \A t \in Threads :
        /\ how[t] # "error"
        /\ issued[t] - snaps[t] \in {0, 1}
        /\ returned[t] > 0 => result[t].state < 0
        /\ (pc[t] = "out" /\ how[t] = "flag") => snaps[t] = issued[t]

\* C8 as stated: whether the stop is the cleared flag or a
\* KeyboardInterrupt, the loop ends only at an interval boundary, with every
\* read it began completed and shown, and no read begins after the signal.
C8_StopIsCooperative ==
    \A t \in Threads :
        /\ (pc[t] = "out" /\ how[t] \in {"flag", "interrupt"}) =>
              /\ returned[t] = issued[t]
              /\ snaps[t] = issued[t]
              /\ sleeps[t] = issued[t]
        /\ lateIssued[t] = 0

\* C8 amended: a loop ends on the cleared flag only at the while test, after
\* every read it began has returned, been shown and been followed by its
\* full sleep; after a stop signal a loop begins at most one more read (the
\* one of a cycle already past the while test) unless start() is called
\* again.  A KeyboardInterrupt ends the main thread's loop where it stands:
\* at most the read in flight is abandoned, unshown, and the sleep cut short.
C8_FlagCooperativeInterruptPreemptive ==
    \A t \in Threads :
        /\ (pc[t] = "out" /\ how[t] = "flag") =>
              /\ returned[t] = issued[t]
              /\ snaps[t] = issued[t]
              /\ sleeps[t] = issued[t]
              /\ sleepLeft[t] = 0
        /\ (pc[t] = "out" /\ how[t] = "interrupt") =>
              /\ t = MainThread
              /\ issued[t] - returned[t] \in {0, 1}
              /\ returned[t] - snaps[t] \in {0, 1}
              /\ snaps[t] - sleeps[t] \in {0, 1}
              /\ issued[t] - sleeps[t] \in {0, 1}
        /\ lateIssued[t] <= 1
        /\ lateIssued[t] = 1 => stopped

C8_Witness ==
    /\ pc[1] = "out"
    /\ how[1] = "interrupt"
    /\ returned[1] = issued[1] - 1
    /\ pc[2] = "out"
    /\ how[2] = "flag"
    /\ lateIssued[2] = 1
    /\ snaps[2] = 1

\* Idle: from construction until the first start() the flag is clear, no
\* thread is in the loop and no read was begun.
IdleUntilStart ==
    nstarts = 0 =>
        /\ ~running
        /\ \A t \in Threads : pc[t] = "out" /\ issued[t] = 0

\* C9 as stated: Idle until start(), only start() leads into Running, and a
\* Stopped monitor (started, flag clear) never runs and never reads again.
C9_StoppedIsFinal ==
    [][ /\ IdleUntilStart
        /\ IdleUntilStart'
        /\ (~running /\ running') => nstarts' = nstarts + 1
        /\ (nstarts > 0 /\ ~running) =>
              /\ ~running'
              /\ \A t \in Threads : issued'[t] <= issued[t] ]_vars

\* C9 amended: Idle until start(); the flag is set by start() and by
\* nothing else, and by every call of start(): a Stopped monitor becomes
\* Running again exactly when start() is called again.
C9_StoppedUntilRestart ==
    [][ /\ IdleUntilStart
        /\ IdleUntilStart'
        /\ (~running /\ running') => nstarts' = nstarts + 1
        /\ nstarts' = nstarts + 1 =>
              /\ running'
              /\ \E t \in Threads : pc[t] = "out" /\ pc'[t] = "loop" ]_vars

C9_Witness ==
    /\ nstarts = 2
    /\ pc[2] = "out"
    /\ how[2] = "flag"
    /\ running
    /\ pc[1] = "reading"

----------------------------------------------------------------------------
(* Claims about the LRC script (checked under SpecLRC).                    *)

\* C10: for every byte sequence the LRC by (256 - sum) mod 256 equals the
\* LRC by ((255 - sum) + 1) mod 256, it is one byte, it is 0 for the empty
\* sequence, and LRC plus byte sum is 0 modulo 256.
C10_BothFormulasAgree ==
    lrcpc = "done" =>
        /\ lrc = lrc2
        /\ lrc \in 0..255
        /\ bytes_list = <<>> => lrc = 0
        /\ (lrc + SumSeq(bytes_list)) % 256 = 0

C10_Witness ==
    /\ lrcpc = "done"
    /\ Len(bytes_list) = 3
    /\ SumSeq(bytes_list) > 256
    /\ lrc = lrc2
    /\ lrc > 0

\* C11 as stated: the six bytes 00 10 0B 00 00 10 sum to 0x2C modulo 256 and
\* their LRC by (256 - sum) mod 256 is 0xD4.
C11_SixBytesSum2C ==
    (lrcpc = "done" /\ bytes_list = <<0, 16, 11, 0, 0, 16>>) =>
        /\ sum_val = 44
        /\ lrc = 212

\* C11 amended: the six bytes 00 10 0B 00 00 10 sum to 0x2B with LRC 0xD5;
\* it is the script's seven bytes, with the trailing 01, that sum to 0x2C
\* with LRC 0xD4.
C11_SixBytesSum2B ==
    lrcpc = "done" =>
        /\ data = SixBytes =>
              /\ bytes_list = <<0, 16, 11, 0, 0, 16>>
              /\ sum_val = 43
              /\ lrc = 213
        /\ data = Fixture =>
              /\ bytes_list = <<0, 16, 11, 0, 0, 16, 1>>
              /\ sum_val = 44
              /\ lrc = 212

C11_Witness ==
    /\ lrcpc = "done"
    /\ data = SixBytes
    /\ bytes_list = <<0, 16, 11, 0, 0, 16>>
    /\ lrc = 213

\* print(f'\n期望 LRC: 0x3E ({0x3E})')
ExpectedLrc == 62

\* C14: for the script's hex string 00100B00001001 the LRC the script
\* computes, by either formula, is the expected LRC 0x3E that it prints.
C14_FixtureLrcIsExpected ==
    (lrcpc = "done" /\ data = Fixture) =>
        /\ lrc = ExpectedLrc
        /\ lrc2 = ExpectedLrc

----------------------------------------------------------------------------
(* Claims about scaling (checked under SpecScale).                         *)

\* A value as a number: Python counts True as 1 and False as 0.
AsNum(v) ==
    IF v.kind = "bool" THEN Num(IF v.b THEN 1 ELSE 0, 1) ELSE v

\* Python's ==, on numbers kept exact.
SameValue(a, b) ==
    AsNum(a).num * AsNum(b).den = AsNum(b).num * AsNum(a).den

\* The entries of the result that succeeded, in order.
Succeeded ==
    SelectSeq(GetData(demo_result), LAMBDA e : e.success)

\* One line per entry that succeeded, none for one that failed and none
\* when the read itself failed.
ScaledOnlyAfterSuccess ==
    /\ Len(scaled) = Len(Succeeded)
    /\ \A k \in DOMAIN scaled :
         /\ scaled[k].name = Succeeded[k].name
         /\ scaled[k].raw = Succeeded[k].value

\* A numeric item is printed as value * scale, with the scale of the
\* configuration entry of its name.
NumericScaled ==
    \A k \in DOMAIN scaled :
        LET c == ConfigOf(items_config, scaled[k].name)
        IN  c.type # "bool" =>
              SameValue(scaled[k].scaled_value,
                        Num(scaled[k].raw.num * c.scale.num,
                            scaled[k].raw.den * c.scale.den))

\* A bool item is printed with its value as read.
BoolUnscaled ==
    \A k \in DOMAIN scaled :
        ConfigOf(items_config, scaled[k].name).type = "bool" =>
            SameValue(scaled[k].scaled_value, scaled[k].raw)

\* 256 * 0.1 = 25.6, 101325.5 * 1 = 101325.5, 1234567 * 0.001 = 1234.567
ScenarioScaled ==
    \A k \in DOMAIN scaled :
        /\ (scaled[k].name = "temperature" /\ scaled[k].raw = Num(256, 1))
              => SameValue(scaled[k].scaled_value, Num(256, 10))
        /\ scaled[k].name = "pressure"
              => /\ SameValue(scaled[k].raw, Num(1013255, 10))
                 /\ SameValue(scaled[k].scaled_value, Num(1013255, 10))
        /\ scaled[k].name = "flow"
              => /\ scaled[k].raw = Num(1234567, 1)
                 /\ SameValue(scaled[k].scaled_value, Num(1234567, 1000))

----------------------------------------------------------------------------
(* Claims about the single-item client (checked under SpecModbus).         *)

\* The response has status 200 and a body with code 0.
Status200Code0(o) ==
    /\ o.kind = "Response"
    /\ o.status = 200
    /\ o.json
    /\ "code" \in DOMAIN o.body
    /\ o.body.code = 0

\* The response carries data.value.
HasValue(o) ==
    /\ "data" \in DOMAIN o.body
    /\ "value" \in DOMAIN o.body.data

\* C13: neither method raises; write_typed returns True exactly for status
\* 200 with code 0 and False otherwise; read_typed returns data.value
\* exactly for status 200 with code 0 and a value, and None for every
\* failure, so None is returned only when the read failed.
C13_SingleItemClientNeverRaises ==
    mbOp # "none" =>
        /\ mbReturn.kind = "returned"
        /\ mbOp = "write" =>
              /\ mbReturn.value \in BOOLEAN
              /\ mbReturn.value <=> Status200Code0(mbOutcome)
        /\ mbOp = "read" =>
              /\ IF Status200Code0(mbOutcome) /\ HasValue(mbOutcome)
                 THEN mbReturn.value = mbOutcome.body.data.value
                 ELSE mbReturn.value = NoneValue
              /\ mbReturn.value = NoneValue =>
                    ~(Status200Code0(mbOutcome) /\ HasValue(mbOutcome))

C13_Witness ==
    /\ mbOp = "read"
    /\ Status200Code0(mbOutcome)
    /\ HasValue(mbOutcome)
    /\ mbReturn = Returned(Bool(FALSE))

====
